---- MODULE Spec2Model ----
(***************************************************************************)
(* A model of the DFA minimizer core, the classes DFA and DFAMinimizer of   *)
(* dfa_logic.py, as a caller of the library uses them: DFA(states,         *)
(* alphabet, transitions, start_state, final_states) stores the containers *)
(* it is given and checks nothing, so the automata of the model are built  *)
(* from any sets and dicts of str, the empty str and the empty dict        *)
(* included.  (main_app.py, the one caller in the repository, passes what  *)
(* it parsed from text fields, which never holds an empty identifier in    *)
(* the three sets.)                                                        *)
(*                                                                         *)
(* An automaton object (class DFA) holds references to four containers:    *)
(* the states set, the alphabet set, the final_states set and the          *)
(* transitions dict, whose values are per-state dicts.  Containers live in *)
(* `heap`; an object holds their addresses, so that two objects built from *)
(* the same container share it, as in Python.                              *)
(*                                                                         *)
(* The algorithms (is_valid, remove_unreachable_states, to_dict,           *)
(* from_dict, minimize) are operators over automaton VALUES (the           *)
(* containers read through the heap).  Where the Python code iterates a    *)
(* set, the iteration order is a parameter of the operator and the action  *)
(* that calls it draws that order from all orders of the set.              *)
(***************************************************************************)
EXTENDS Integers, Sequences, FiniteSets, TLC

VARIABLES
    heap,        \* the containers: a sequence, addressed by position
    original,    \* the automaton object a caller built with DFA(...)
    input0,      \* ghost: the value `original` was constructed with
    verdicts,    \* the results of the is_valid() calls so far, in call order
    pruned,      \* result of original.remove_unreachable_states()
    minimized,   \* outcome of DFAMinimizer(original).minimize()
    data,        \* result of original.to_dict()
    restored,    \* result of DFA.from_dict(data)
    edits        \* number of caller modifications of returned automata

vars == <<heap, original, input0, verdicts, pruned, minimized, data, restored, edits>>

(***************************************************************************)
(* Bounds of the model.                                                    *)
(***************************************************************************)
\* largest number of states of an automaton of ValidFamily
MaxStates == 3
\* RawFamily: identifiers + symbols of the universe an automaton is drawn from
MaxRawSize == 3
\* is_valid() calls on one automaton
MaxRuns == 2
\* longest input word the language and distinguishability checks run
MaxWordLen == 4
\* caller modifications of a returned automaton
MaxEdits == 1
\* most states, and most entries of the transition table, of the automata
\* minimize() is run on pass by pass
MaxTable == 4

(***************************************************************************)
(* Identifiers.  Python compares str values lexicographically by code      *)
(* point; StrOrder lists every identifier of the model in that order.      *)
(***************************************************************************)
StrOrder ==
    <<"", "0", "1", "2", "A", "B", "C", "D", "E", "F", "G", "H",
      "q0", "q1", "q2", "q3", "q4", "q5", "q6", "q7", "q8", "q9">>

Rank(s) == CHOOSE i \in 1..Len(StrOrder) : StrOrder[i] = s

\* the str values the callers of the model pass to DFA(...) as state
\* identifiers, "" (a str as any other, and falsy) first, and as symbols
StateIds == <<"", "A", "B", "C", "D", "E", "F", "G", "H">>
Symbols == <<"0", "1">>

Range(seq) == {seq[i] : i \in 1..Len(seq)}

Min(a, b) == IF a <= b THEN a ELSE b
Max(a, b) == IF a >= b THEN a ELSE b

\* sorted(list(S)) for a set S of str
RECURSIVE Sorted(_)
Sorted(S) ==
    IF S = {} THEN <<>>
    ELSE LET least == CHOOSE x \in S : \A y \in S : Rank(x) <= Rank(y)
         IN <<least>> \o Sorted(S \ {least})

\* the orders in which `for x in S` may visit a set S (CPython: by hash,
\* which for str is randomised per process)
IterOrders(S) ==
    LET base == Sorted(S) IN
    {[i \in 1..Len(base) |-> f[base[i]]] : f \in Permutations(S)}

(***************************************************************************)
(* DFA.is_valid.  The result is the pair (bool, message) the code returns. *)
(***************************************************************************)
MsgEmptyStates == "States set cannot be empty."
MsgStartState(start_state) ==
    "Start state '" \o start_state \o "' is not in the set of states."
MsgFinalStates == "All final states must be in the set of states."
MsgMissingState(state) == "Missing transitions for state '" \o state \o "'."
MsgMissingSymbol(state, symbol) ==
    "Missing transition for state '" \o state \o "' on symbol '" \o symbol \o "'."
MsgInvalidTarget(state, symbol, next_state) ==
    "Transition from '" \o state \o "' on '" \o symbol
        \o "' leads to an invalid state '" \o next_state \o "'."
MsgValid == "DFA is valid."

\* CheckSymbols without the test of line 31: a target outside `states`
\* goes unnoticed
RECURSIVE CheckSymbolsNoTarget(_, _, _, _)
CheckSymbolsNoTarget(d, state, symOrder, k) ==
    IF k > Len(symOrder) THEN <<TRUE, "">>
    ELSE IF symOrder[k] \notin DOMAIN d.transitions[state]
    THEN <<FALSE, MsgMissingSymbol(state, symOrder[k])>>
    ELSE CheckSymbolsNoTarget(d, state, symOrder, k + 1)

\* lines 27-32: the inner loop over the alphabet for one state, from the
\* k-th symbol of the iteration order on; <<TRUE, "">> when none offends
RECURSIVE CheckSymbols(_, _, _, _)
CheckSymbols(d, state, symOrder, k) ==
    IF k > Len(symOrder) THEN <<TRUE, "">>
    ELSE LET symbol == symOrder[k] IN
         IF symbol \notin DOMAIN d.transitions[state]
         THEN <<FALSE, MsgMissingSymbol(state, symbol)>>
         ELSE LET next_state == d.transitions[state][symbol] IN
              IF next_state \notin d.states
              THEN <<FALSE, MsgInvalidTarget(state, symbol, next_state)>>
              ELSE CheckSymbols(d, state, symOrder, k + 1)

\* CheckStates reporting a missing entry of a later symbol under the first
\* symbol of the iteration
RECURSIVE CheckStatesFirstSymbol(_, _, _, _)
CheckStatesFirstSymbol(d, stateOrder, symOrder, k) ==
    IF k > Len(stateOrder) THEN <<TRUE, MsgValid>>
    ELSE LET state == stateOrder[k] IN
         IF state \notin DOMAIN d.transitions
         THEN <<FALSE, MsgMissingState(state)>>
         ELSE LET r == CheckSymbols(d, state, symOrder, 1) IN
              IF r[1] THEN CheckStatesFirstSymbol(d, stateOrder, symOrder, k + 1)
              ELSE IF symOrder[1] \in DOMAIN d.transitions[state]
                      /\ d.transitions[state][symOrder[1]] \in d.states
              THEN <<FALSE, MsgMissingSymbol(state, symOrder[1])>>
              ELSE r

\* lines 24-33: the outer loop over the states, from the k-th state on
RECURSIVE CheckStates(_, _, _, _)
CheckStates(d, stateOrder, symOrder, k) ==
    IF k > Len(stateOrder) THEN <<TRUE, MsgValid>>
    ELSE LET state == stateOrder[k] IN
         IF state \notin DOMAIN d.transitions
         THEN <<FALSE, MsgMissingState(state)>>
         ELSE LET r == CheckSymbols(d, state, symOrder, 1) IN
              IF r[1] THEN CheckStates(d, stateOrder, symOrder, k + 1) ELSE r

is_valid(d, stateOrder, symOrder) ==
    IF d.states = {} THEN <<FALSE, MsgEmptyStates>>
    ELSE IF d.start_state \notin d.states
    THEN <<FALSE, MsgStartState(d.start_state)>>
    ELSE IF ~(d.final_states \subseteq d.states)
    THEN <<FALSE, MsgFinalStates>>
    ELSE CheckStates(d, stateOrder, symOrder, 1)

(***************************************************************************)
(* DFA.remove_unreachable_states, on a value.  `x and ...` in Python tests *)
(* truthiness: None and the empty str "" are both falsy.                   *)
(***************************************************************************)
Truthy(s) == s # ""

\* lines 43-47: the loop over the alphabet for one dequeued state, from the
\* k-th symbol on; the result is <<reachable_states, queue>>
RECURSIVE Visit(_, _, _, _, _, _)
Visit(d, current_state, symOrder, k, reachable_states, queue) ==
    IF k > Len(symOrder) THEN <<reachable_states, queue>>
    ELSE LET symbol == symOrder[k]
             row == d.transitions[current_state]
             \* .get(symbol) is None when the entry is missing
             present == symbol \in DOMAIN row
         IN IF present /\ Truthy(row[symbol]) /\ row[symbol] \notin reachable_states
            THEN Visit(d, current_state, symOrder, k + 1,
                       reachable_states \cup {row[symbol]}, Append(queue, row[symbol]))
            ELSE Visit(d, current_state, symOrder, k + 1, reachable_states, queue)

\* lines 40-47: while queue
RECURSIVE Traverse(_, _, _, _)
Traverse(d, symOrder, reachable_states, queue) ==
    IF queue = <<>> THEN reachable_states
    ELSE LET current_state == Head(queue)
             step == IF current_state \in DOMAIN d.transitions
                     THEN Visit(d, current_state, symOrder, 1, reachable_states, Tail(queue))
                     ELSE <<reachable_states, Tail(queue)>>
         IN Traverse(d, symOrder, step[1], step[2])

\* lines 37-47
ReachableStates(d, symOrder) ==
    Traverse(d, symOrder, {d.start_state}, <<d.start_state>>)

\* lines 49-53.  The caller has validated d (main_app.py:157-161), so every
\* member of reachable_states is a key of d.transitions.
remove_unreachable_states(d, symOrder) ==
    LET reachable_states == ReachableStates(d, symOrder) IN
    [states |-> d.states \cap reachable_states,
     alphabet |-> d.alphabet,
     transitions |-> [s \in reachable_states |-> d.transitions[s]],
     start_state |-> d.start_state,
     final_states |-> d.final_states \cap reachable_states]

(***************************************************************************)
(* DFAMinimizer.minimize, on a value.  Indices are 0-based as in the code; *)
(* `states` is the sorted list, At(states, i) is states[i].  dist_table is *)
(* the set of the index pairs <<i, j>> whose entry dist_table[i][j] is     *)
(* True.  A failed dict lookup raises KeyError, which ends the call.       *)
(***************************************************************************)
At(seq, i) == seq[i + 1]

\* line 98: state_map[state]; defined for the members of `states` only
state_map(states, state) == (CHOOSE i \in 1..Len(states) : states[i] = state) - 1

\* the pairs (i, j), i < j, in the order of the loops of lines 103-104,
\* 114-115
RECURSIVE PairList(_, _, _)
PairList(n, i, j) ==
    IF i >= n THEN <<>>
    ELSE IF j >= n THEN PairList(n, i + 1, i + 2)
    ELSE <<(<<i, j>>)>> \o PairList(n, i, j + 1)

\* BaseTable marking nothing
BaseTableEmpty(dfa, states) == {}

\* lines 103-108: the base case
BaseTable(dfa, states) ==
    LET n == Len(states) IN
    {p \in Range(PairList(n, 0, 1)) :
        (At(states, p[1]) \in dfa.final_states) # (At(states, p[2]) \in dfa.final_states)}

\* lines 117-127: the loop over the alphabet for the unmarked pair (i, j),
\* from the k-th symbol on: "mark" (and break), "keep", or "KeyError"
RECURSIVE ScanSymbols(_, _, _, _, _, _, _)
ScanSymbols(dfa, states, dist_table, i, j, symOrder, k) ==
    IF k > Len(symOrder) THEN [res |-> "keep", key |-> ""]
    ELSE LET symbol == symOrder[k]
             next1 == dfa.transitions[At(states, i)][symbol]
             next2 == dfa.transitions[At(states, j)][symbol]
         IN IF next1 \notin Range(states) THEN [res |-> "KeyError", key |-> next1]
            ELSE IF next2 \notin Range(states) THEN [res |-> "KeyError", key |-> next2]
            ELSE LET idx1 == state_map(states, next1)
                     idx2 == state_map(states, next2)
                     row == Min(idx1, idx2)
                     col == Max(idx1, idx2)
                 IN IF row # col /\ <<row, col>> \in dist_table
                    THEN [res |-> "mark", key |-> ""]
                    ELSE ScanSymbols(dfa, states, dist_table, i, j, symOrder, k + 1)

\* lines 113-127: one pass of the while loop over the pairs from the k-th
\* on; marks made earlier in the pass are seen by the later pairs
RECURSIVE Pass(_, _, _, _, _, _, _)
Pass(dfa, states, symOrder, pairs, k, dist_table, changed) ==
    IF k > Len(pairs)
    THEN [raised |-> FALSE, key |-> "", dist_table |-> dist_table, changed |-> changed]
    ELSE IF pairs[k] \in dist_table
    THEN Pass(dfa, states, symOrder, pairs, k + 1, dist_table, changed)
    ELSE LET r == ScanSymbols(dfa, states, dist_table, pairs[k][1], pairs[k][2], symOrder, 1)
         IN IF r.res = "KeyError"
            THEN [raised |-> TRUE, key |-> r.key, dist_table |-> dist_table,
                  changed |-> changed]
            ELSE IF r.res = "mark"
            THEN Pass(dfa, states, symOrder, pairs, k + 1, dist_table \cup {pairs[k]}, TRUE)
            ELSE Pass(dfa, states, symOrder, pairs, k + 1, dist_table, changed)

\* lines 111-127: while changed; `passes` counts the passes run
RECURSIVE Closure(_, _, _, _, _)
Closure(dfa, states, symOrder, dist_table, passes) ==
    LET r == Pass(dfa, states, symOrder, PairList(Len(states), 0, 1), 1, dist_table, FALSE)
    IN IF r.raised \/ ~r.changed
       THEN [raised |-> r.raised, key |-> r.key, dist_table |-> r.dist_table,
             passes |-> passes + 1]
       ELSE Closure(dfa, states, symOrder, r.dist_table, passes + 1)

\* lines 102-127
TableFilling(dfa, states, symOrder) ==
    Closure(dfa, states, symOrder, BaseTable(dfa, states), 0)

\* lines 130-142: the greedy grouping, from index i on
RECURSIVE Grouping(_, _, _, _)
Grouping(states, dist_table, i, visited) ==
    IF i >= Len(states) THEN <<>>
    ELSE IF At(states, i) \in visited
    THEN Grouping(states, dist_table, i + 1, visited)
    ELSE LET current_partition ==
                 {At(states, i)} \cup
                 {At(states, j) : j \in {j \in (i + 1)..(Len(states) - 1) :
                                            <<i, j>> \notin dist_table}}
         IN <<current_partition>>
                \o Grouping(states, dist_table, i + 1, visited \cup current_partition)

\* line 145: partition_map[state] is the last partition holding `state`
\* (a later entry of the dict comprehension overwrites an earlier one);
\* the result is its 0-based position in `partitions`
InSomePartition(partitions, state) ==
    \E k \in 1..Len(partitions) : state \in partitions[k]

partition_map(partitions, state) ==
    (CHOOSE k \in 1..Len(partitions) :
        /\ state \in partitions[k]
        /\ \A m \in (k + 1)..Len(partitions) : state \notin partitions[m]) - 1

\* line 146: f"q{i}"
new_state_names(i) == "q" \o ToString(i)

\* lines 153-159: the dict lookups partition_map[next_state_old], in the
\* order the two loops make them
RECURSIVE Lookups(_, _, _, _, _)
Lookups(dfa, symOrder, rep, p, k) ==
    IF p > Len(rep) THEN <<>>
    ELSE IF k > Len(symOrder) THEN Lookups(dfa, symOrder, rep, p + 1, 1)
    ELSE <<dfa.transitions[rep[p]][symOrder[k]]>> \o Lookups(dfa, symOrder, rep, p, k + 1)

NoValue ==
    [states |-> {}, alphabet |-> {}, transitions |-> <<>>, start_state |-> "",
     final_states |-> {}]

\* lines 145-161.  rep[p] is the member next(iter(partitions[p])) yields.
Reconstruct(dfa, partitions, symOrder, rep) ==
    LET looked == Lookups(dfa, symOrder, rep, 1, 1)
        missing == {m \in 1..Len(looked) : ~InSomePartition(partitions, looked[m])}
        name(state) == new_state_names(partition_map(partitions, state))
        \* new_transitions is a defaultdict: a key exists once an entry is
        \* stored under it, so with an empty alphabet it has no key
        keys == IF dfa.alphabet = {} THEN {} ELSE 1..Len(partitions)
    IN IF missing # {}
       THEN [status |-> "KeyError",
             key |-> looked[CHOOSE m \in missing : \A o \in missing : m <= o],
             value |-> NoValue, partitions |-> partitions]
       ELSE [status |-> "returned", key |-> "",
             value |->
                [states |-> {new_state_names(i - 1) : i \in 1..Len(partitions)},
                 alphabet |-> dfa.alphabet,
                 transitions |->
                    [q \in {new_state_names(i - 1) : i \in keys} |->
                        LET p == CHOOSE i \in keys : new_state_names(i - 1) = q IN
                        [symbol \in dfa.alphabet |-> name(dfa.transitions[rep[p]][symbol])]],
                 start_state |-> name(dfa.start_state),
                 final_states |->
                    {new_state_names(i - 1) :
                        i \in {i \in 1..Len(partitions) :
                                  partitions[i] \cap dfa.final_states # {}}}],
             partitions |-> partitions]

\* lines 94-142: the partitions of the run, <<>> when the closure raised
Partitions(d, symOrder) ==
    LET dfa == remove_unreachable_states(d, symOrder)
        states == Sorted(dfa.states)
        t == TableFilling(dfa, states, symOrder)
    IN IF t.raised THEN <<>> ELSE Grouping(states, t.dist_table, 0, {})

\* the choices next(iter(p)) can make, one member for each partition
RECURSIVE RepChoices(_)
RepChoices(partitions) ==
    IF partitions = <<>> THEN {<<>>}
    ELSE {<<s>> \o rest : s \in Head(partitions), rest \in RepChoices(Tail(partitions))}

\* lines 91-161
minimize(d, symOrder, rep) ==
    LET dfa == remove_unreachable_states(d, symOrder)
        states == Sorted(dfa.states)
        t == TableFilling(dfa, states, symOrder)
    IN IF t.raised
       THEN [status |-> "KeyError", key |-> t.key, value |-> NoValue, partitions |-> <<>>]
       ELSE Reconstruct(dfa, Grouping(states, t.dist_table, 0, {}), symOrder, rep)

(***************************************************************************)
(* DFA.to_dict and DFA.from_dict, on values.  The transitions dict is      *)
(* passed through by reference; the actions below keep its address.        *)
(***************************************************************************)
\* to_dict emitting the states under "final_states"
to_dict_states_as_final(d) ==
    [states |-> Sorted(d.states),
     alphabet |-> Sorted(d.alphabet),
     start_state |-> d.start_state,
     final_states |-> Sorted(d.states)]

\* lines 57-63, without the "transitions" entry
to_dict(d) ==
    [states |-> Sorted(d.states),
     alphabet |-> Sorted(d.alphabet),
     start_state |-> d.start_state,
     final_states |-> Sorted(d.final_states)]

\* lines 68-74, without the transitions argument
from_dict(dict) ==
    [states |-> Range(dict.states),
     alphabet |-> Range(dict.alphabet),
     start_state |-> dict.start_state,
     final_states |-> Range(dict.final_states)]

(***************************************************************************)
(* Objects and the heap.  A DFA object is the record of lines 9-13: the    *)
(* addresses of its containers, and start_state (an immutable str).        *)
(***************************************************************************)
NoObject ==
    [states |-> 0, alphabet |-> 0, transitions |-> 0, start_state |-> "",
     final_states |-> 0]

Exists(obj) == obj.transitions # 0

\* the value of an object: its containers read through heap h
ValueIn(h, obj) ==
    [states |-> h[obj.states],
     alphabet |-> h[obj.alphabet],
     transitions |-> [s \in DOMAIN h[obj.transitions] |-> h[h[obj.transitions][s]]],
     start_state |-> obj.start_state,
     final_states |-> h[obj.final_states]]

Value(obj) == ValueIn(heap, obj)

\* the per-state dicts of value v, in the sorted order of their keys
Rows(v) == [i \in 1..Cardinality(DOMAIN v.transitions) |->
               v.transitions[Sorted(DOMAIN v.transitions)[i]]]

\* the dict state -> address for rows stored from address base + 1 on
RowIndex(v, base) ==
    [s \in DOMAIN v.transitions |->
        base + (CHOOSE i \in 1..Cardinality(DOMAIN v.transitions) :
                    Sorted(DOMAIN v.transitions)[i] = s)]

\* DFA(states, alphabet, transitions, start_state, final_states) called with
\* fresh containers holding value v: the arguments of DFA(...), lines 8-13
FreshHeap(v) ==
    <<v.states, v.alphabet, v.final_states>> \o Rows(v) \o <<RowIndex(v, 3)>>

FreshObject(v) ==
    [states |-> 1, alphabet |-> 2,
     transitions |-> 4 + Cardinality(DOMAIN v.transitions),
     start_state |-> v.start_state, final_states |-> 3]

(***************************************************************************)
(* The automata the model is run on.                                       *)
(***************************************************************************)
Prefix(seq, n) == {seq[i] : i \in 1..Min(n, Len(seq))}

\* the state sets of the valid automata: n identifiers in sorted order,
\* with or without the empty identifier
NameSets(n) == {Prefix(StateIds, n), Prefix(Tail(StateIds), n)}

\* the per-state dicts a caller can pass, complete or not and the empty
\* dict included, from symbols of Sigma to identifiers of U
RawRows(U, Sigma) == UNION {[D -> U] : D \in SUBSET Sigma}

\* the automaton DFA_GUI.run_minimization builds from the fields that
\* DFA_GUI.load_example_dfa fills
Example ==
    [states |-> {"A", "B", "C", "D", "E", "F", "G", "H"},
     alphabet |-> {"0", "1"},
     transitions |->
        [A |-> [s \in {"0", "1"} |-> IF s = "0" THEN "B" ELSE "F"],
         B |-> [s \in {"0", "1"} |-> IF s = "0" THEN "G" ELSE "C"],
         C |-> [s \in {"0", "1"} |-> IF s = "0" THEN "A" ELSE "C"],
         D |-> [s \in {"0", "1"} |-> IF s = "0" THEN "C" ELSE "G"],
         E |-> [s \in {"0", "1"} |-> IF s = "0" THEN "H" ELSE "F"],
         F |-> [s \in {"0", "1"} |-> IF s = "0" THEN "C" ELSE "G"],
         G |-> [s \in {"0", "1"} |-> IF s = "0" THEN "G" ELSE "E"],
         H |-> [s \in {"0", "1"} |-> IF s = "0" THEN "G" ELSE "C"]],
     start_state |-> "A",
     final_states |-> {"C"}]

(***************************************************************************)
(* The state machine: an automaton is constructed, then the operations of  *)
(* dfa_logic.py are called on it.  The operations do not depend on each    *)
(* other's results; the model calls them in one order: validation, then,  *)
(* on an accepted automaton, pruning, minimization, serialization and      *)
(* deserialization, each once, then validation again.                      *)
(***************************************************************************)
NoOutcome == [status |-> "none", key |-> "", dfa |-> NoObject, partitions |-> <<>>]

NoData ==
    [states |-> <<>>, alphabet |-> <<>>, transitions |-> 0, start_state |-> "",
     final_states |-> <<>>]

InitWith(v) ==
    /\ heap = FreshHeap(v)
    /\ original = FreshObject(v)
    /\ input0 = v
    /\ verdicts = <<>>
    /\ pruned = NoObject
    /\ minimized = NoOutcome
    /\ data = NoData
    /\ restored = NoObject
    /\ edits = 0

\* every automaton, well-formed or not, whose identifiers come from U and
\* whose symbols come from Sigma
InitRaw(U, Sigma) ==
    \E S \in SUBSET U, A \in SUBSET Sigma, K \in SUBSET U, q \in U, F \in SUBSET U :
    \E t \in [K -> RawRows(U, Sigma)] :
        InitWith([states |-> S, alphabet |-> A, transitions |-> t,
                  start_state |-> q, final_states |-> F])

\* every complete automaton over S and Sigma
InitComplete(S, Sigma) ==
    \E t \in [S -> [Sigma -> S]], q \in S, F \in SUBSET S :
        InitWith([states |-> S, alphabet |-> Sigma, transitions |-> t,
                  start_state |-> q, final_states |-> F])

\* the raw automata over MaxRawSize identifiers and symbols together, and
\* the example the application starts with
Init ==
    \/ \E k \in 0..Min(Len(Symbols), MaxRawSize) :
          InitRaw(Prefix(StateIds, MaxRawSize - k), Prefix(Symbols, k))
    \/ InitWith(Example)

\* every complete automaton of at most MaxStates states
InitValid ==
    \E n \in 1..MaxStates, k \in 0..Len(Symbols) :
    \E S \in NameSets(n) : InitComplete(S, Prefix(Symbols, k))

\* main_app.py:157-161: the operations past validation run only on an
\* automaton is_valid() accepted
Validated == verdicts # <<>> /\ verdicts[1][1]

\* a further is_valid() call comes after the other operations
MayValidate ==
    IF verdicts = <<>> THEN TRUE
    ELSE IF verdicts[1][1] THEN Exists(restored) ELSE TRUE

\* original.is_valid()
IsValid ==
    /\ Len(verdicts) < MaxRuns
    /\ MayValidate
    /\ LET d == Value(original) IN
       \E stateOrder \in IterOrders(d.states), symOrder \in IterOrders(d.alphabet) :
          verdicts' = Append(verdicts, is_valid(d, stateOrder, symOrder))
    /\ UNCHANGED <<heap, original, input0, pruned, minimized, data, restored, edits>>

\* pruned = original.remove_unreachable_states(): new states and
\* final_states sets and a new transitions dict whose values are the
\* per-state dicts of `original`; the alphabet set is the one of `original`
RemoveUnreachableStates ==
    /\ Validated
    /\ ~Exists(pruned)
    /\ \E symOrder \in IterOrders(Value(original).alphabet) :
          LET d == Value(original)
              new == remove_unreachable_states(d, symOrder)
              base == Len(heap)
          IN /\ heap' = heap \o <<new.states, new.final_states,
                                   [s \in DOMAIN new.transitions |->
                                       heap[original.transitions][s]]>>
             /\ pruned' = [states |-> base + 1, alphabet |-> original.alphabet,
                           transitions |-> base + 3,
                           start_state |-> original.start_state,
                           final_states |-> base + 2]
    /\ UNCHANGED <<original, input0, verdicts, minimized, data, restored, edits>>

\* minimized = DFAMinimizer(original).minimize(): on return, new states and
\* final_states sets and a new dict of new per-state dicts; the alphabet set
\* is the one of `original`.  The containers of the local pruned automaton
\* are unreachable after the call and are not kept in the heap.
Minimize ==
    /\ Exists(pruned)
    /\ minimized.status = "none"
    /\ LET d == Value(original) IN
       \E symOrder \in IterOrders(d.alphabet) :
       \E rep \in RepChoices(Partitions(d, symOrder)) :
          LET out == minimize(d, symOrder, rep)
              base == Len(heap)
              n == Cardinality(DOMAIN out.value.transitions)
          IN IF out.status = "returned"
             THEN /\ heap' = heap \o <<out.value.states, out.value.final_states>>
                                  \o Rows(out.value) \o <<RowIndex(out.value, base + 2)>>
                  /\ minimized' =
                        [status |-> "returned", key |-> "",
                         dfa |-> [states |-> base + 1, alphabet |-> original.alphabet,
                                  transitions |-> base + 3 + n,
                                  start_state |-> out.value.start_state,
                                  final_states |-> base + 2],
                         partitions |-> out.partitions]
             ELSE /\ heap' = heap
                  /\ minimized' = [status |-> out.status, key |-> out.key,
                                   dfa |-> NoObject, partitions |-> out.partitions]
    /\ UNCHANGED <<original, input0, verdicts, pruned, data, restored, edits>>

\* data = original.to_dict(): three new sorted lists, held in `data`
\* itself, and the transitions dict of `original`
ToDict ==
    /\ minimized.status # "none"
    /\ data.transitions = 0
    /\ LET dict == to_dict(Value(original)) IN
       data' = [states |-> dict.states, alphabet |-> dict.alphabet,
                transitions |-> original.transitions,
                start_state |-> dict.start_state, final_states |-> dict.final_states]
    /\ UNCHANGED <<heap, original, input0, verdicts, pruned, minimized, restored, edits>>

\* restored = DFA.from_dict(data): three new sets and the transitions dict
\* of `data`
FromDict ==
    /\ data.transitions # 0
    /\ ~Exists(restored)
    /\ LET new == from_dict(data)
           base == Len(heap)
       IN /\ heap' = heap \o <<new.states, new.alphabet, new.final_states>>
          /\ restored' = [states |-> base + 1, alphabet |-> base + 2,
                          transitions |-> data.transitions,
                          start_state |-> new.start_state,
                          final_states |-> base + 3]
    /\ UNCHANGED <<original, input0, verdicts, pruned, minimized, data, edits>>

\* the automata the calls returned; callers modify them once the calls of
\* the run are over
Returned ==
    {obj \in {pruned, minimized.dfa} : Exists(obj)}

\* a caller adds a symbol to the alphabet set of a returned automaton:
\* obj.alphabet.add("2")
ModifyAlphabet ==
    /\ Exists(restored)
    /\ Len(verdicts) = MaxRuns
    /\ edits < MaxEdits
    /\ \E obj \in Returned :
          heap' = [heap EXCEPT ![obj.alphabet] = @ \cup {"2"}]
    /\ edits' = edits + 1
    /\ UNCHANGED <<original, input0, verdicts, pruned, minimized, data, restored>>

\* a caller redirects one entry of a per-state transition mapping of a
\* returned automaton: obj.transitions[s][x] = t
ModifyTransition ==
    /\ Exists(restored)
    /\ Len(verdicts) = MaxRuns
    /\ edits < MaxEdits
    /\ \E obj \in Returned :
       \E s \in DOMAIN heap[obj.transitions] :
       \E x \in DOMAIN heap[heap[obj.transitions][s]] :
       \E t \in heap[obj.states] \ {heap[heap[obj.transitions][s]][x]} :
          heap' = [heap EXCEPT ![heap[obj.transitions][s]] = [@ EXCEPT ![x] = t]]
    /\ edits' = edits + 1
    /\ UNCHANGED <<original, input0, verdicts, pruned, minimized, data, restored>>

Next ==
    \/ IsValid
    \/ RemoveUnreachableStates
    \/ Minimize
    \/ ToDict
    \/ FromDict

NextAlias ==
    \/ Next
    \/ ModifyAlphabet
    \/ ModifyTransition

\* raw automata and the example: validation, then the operations
Spec == Init /\ [][Next]_vars

\* every complete automaton of up to MaxStates states
SpecMin == InitValid /\ [][Next]_vars

\* as Spec, with callers modifying what the calls returned
SpecAlias == Init /\ [][NextAlias]_vars

(***************************************************************************)
(* minimize() pass by pass.  While the call runs, `minimized` holds its    *)
(* local variables under `locals`: dfa, states, dist_table and changed,    *)
(* the order `symOrder` in which this process iterates dfa.alphabet, and   *)
(* two history values that the code does not compute: `passes`, the number *)
(* of passes of the while loop run so far, and `base`, the table as step 3 *)
(* left it.                                                                *)
(***************************************************************************)
\* lines 94-111: steps 1 to 3 and `changed = True`
BaseCase ==
    /\ Validated
    /\ minimized.status = "none"
    /\ \E symOrder \in IterOrders(Value(original).alphabet) :
          LET dfa == remove_unreachable_states(Value(original), symOrder)
              states == Sorted(dfa.states)
              dist_table == BaseTable(dfa, states)
          IN minimized' =
                [status |-> "closure", key |-> "", dfa |-> NoObject,
                 partitions |-> <<>>,
                 locals |-> [dfa |-> dfa, states |-> states, symOrder |-> symOrder,
                             dist_table |-> dist_table, changed |-> TRUE,
                             passes |-> 0, base |-> dist_table]]
    /\ UNCHANGED <<heap, original, input0, verdicts, pruned, data, restored, edits>>

\* lines 112-127: one pass of `while changed`; a KeyError ends the call
ClosurePass ==
    /\ minimized.status = "closure"
    /\ minimized.locals.changed
    /\ LET l == minimized.locals
           r == Pass(l.dfa, l.states, l.symOrder, PairList(Len(l.states), 0, 1), 1,
                     l.dist_table, FALSE)
       IN minimized' =
             IF r.raised
             THEN [minimized EXCEPT !.status = "KeyError", !.key = r.key]
             ELSE [minimized EXCEPT !.locals.dist_table = r.dist_table,
                                    !.locals.changed = r.changed,
                                    !.locals.passes = @ + 1]
    /\ UNCHANGED <<heap, original, input0, verdicts, pruned, data, restored, edits>>

\* lines 129-142: the loop has ended; step 5 builds the partitions
Group ==
    /\ minimized.status = "closure"
    /\ ~minimized.locals.changed
    /\ LET l == minimized.locals IN
       minimized' = [minimized EXCEPT
                        !.status = "grouped",
                        !.partitions = Grouping(l.states, l.dist_table, 0, {})]
    /\ UNCHANGED <<heap, original, input0, verdicts, pruned, data, restored, edits>>

\* every complete automaton whose transition table has at most MaxTable
\* entries and which has at most MaxTable states
InitLoop ==
    \E n \in 1..MaxTable, k \in 0..Len(Symbols) :
        /\ n * k <= MaxTable
        /\ \E S \in NameSets(n) : InitComplete(S, Prefix(Symbols, k))

NextLoop ==
    \/ IsValid
    \/ BaseCase
    \/ ClosurePass
    \/ Group

\* validation, then minimize() up to step 5, one pass of the loop at a time
SpecLoop == InitLoop /\ [][NextLoop]_vars

(***************************************************************************)
(* Notions the properties are stated with, defined from the automaton and  *)
(* not from the algorithms above.                                          *)
(***************************************************************************)
\* the words over Sigma of length at most n
Words(Sigma, n) == UNION {[1..m -> Sigma] : m \in 0..n}

\* the state automaton d is in after reading word w from state s
RECURSIVE Run(_, _, _)
Run(d, s, w) ==
    IF w = <<>> THEN s ELSE Run(d, d.transitions[s][Head(w)], Tail(w))

Accepts(d, w) == Run(d, d.start_state, w) \in d.final_states

\* the least set holding R and closed under the transitions of d
RECURSIVE ClosedUnder(_, _)
ClosedUnder(d, R) ==
    LET more == R \cup {d.transitions[s][x] : s \in R, x \in d.alphabet}
    IN IF more = R THEN R ELSE ClosedUnder(d, more)

\* the states some word leads to from the start state
Reachable(d) == ClosedUnder(d, {d.start_state})

\* some word leads from exactly one of s, t to a final state
Distinguishable(d, s, t) ==
    \E w \in Words(d.alphabet, MaxWordLen) :
        (Run(d, s, w) \in d.final_states) # (Run(d, t, w) \in d.final_states)

\* the data-model invariants of a well-formed automaton
Total(d) ==
    \A s \in d.states : \A x \in d.alphabet :
        /\ s \in DOMAIN d.transitions
        /\ x \in DOMAIN d.transitions[s]
        /\ d.transitions[s][x] \in d.states

WellFormed(d) ==
    /\ d.states # {}
    /\ d.start_state \in d.states
    /\ d.final_states \subseteq d.states
    /\ Total(d)

Minimized == Value(minimized.dfa)

\* s and t lie together in a block of the minimizer's partition
SameBlock(s, t) ==
    \E k \in 1..Len(minimized.partitions) :
        s \in minimized.partitions[k] /\ t \in minimized.partitions[k]

(***************************************************************************)
(* C3.  Reachability pruning: the states of remove_unreachable_states()    *)
(* are exactly the states reachable from start_state by some word, the     *)
(* final states are the original ones among them, and start_state and      *)
(* alphabet are unchanged, whatever the state identifiers are.             *)
(***************************************************************************)
PruneExact ==
    Exists(pruned) =>
        /\ Value(pruned).states = Reachable(input0)
        /\ Value(pruned).final_states = input0.final_states \cap Reachable(input0)
        /\ Value(pruned).start_state = input0.start_state
        /\ Value(pruned).alphabet = input0.alphabet

\* the same, for the automata in which no identifier is the empty str
PruneExactTruthy ==
    (\A s \in input0.states : Truthy(s)) => PruneExact

(***************************************************************************)
(* C1.  Language preservation: minimize() returns an automaton that        *)
(* accepts a word exactly when the validated input accepts it.             *)
(***************************************************************************)
LanguagePreserved ==
    minimized.status # "none" =>
        /\ minimized.status = "returned"
        /\ \A w \in Words(input0.alphabet, MaxWordLen) :
               Accepts(Minimized, w) <=> Accepts(input0, w)

\* the same, for the automata in which no identifier is the empty str
LanguagePreservedTruthy ==
    (\A s \in input0.states : Truthy(s)) => LanguagePreserved

(***************************************************************************)
(* C2.  Minimality: two reachable states are in the same block exactly     *)
(* when no word distinguishes them, and minimize() returns one state for   *)
(* each class of indistinguishable reachable states.                       *)
(***************************************************************************)
Classes(d) ==
    {{t \in Reachable(d) : ~Distinguishable(d, s, t)} : s \in Reachable(d)}

BlocksAreClasses ==
    minimized.status # "none" =>
        /\ minimized.status = "returned"
        /\ \A s, t \in Reachable(input0) :
               SameBlock(s, t) <=> ~Distinguishable(input0, s, t)
        /\ Cardinality(Minimized.states) = Cardinality(Classes(input0))

\* the same, for the automata in which no identifier is the empty str
BlocksAreClassesTruthy ==
    (\A s \in input0.states : Truthy(s)) => BlocksAreClasses

(***************************************************************************)
(* C10.  Representative independence: the members of a block move to one   *)
(* block on every symbol, and minimize() returns the same automaton for    *)
(* every choice of representatives and every order of the alphabet.        *)
(***************************************************************************)
BlocksCongruent ==
    \A k \in 1..Len(minimized.partitions) :
    \A s, t \in minimized.partitions[k] : \A x \in input0.alphabet :
        SameBlock(input0.transitions[s][x], input0.transitions[t][x])

RepresentativeIndependent ==
    minimized.status # "none" =>
        /\ minimized.status = "returned"
        /\ BlocksCongruent
        /\ \A symOrder \in IterOrders(input0.alphabet) :
           \A rep \in RepChoices(Partitions(input0, symOrder)) :
               LET out == minimize(input0, symOrder, rep) IN
               out.status = "returned" /\ out.value = Minimized

\* the same, for the automata in which no identifier is the empty str
RepresentativeIndependentTruthy ==
    (\A s \in input0.states : Truthy(s)) => RepresentativeIndependent

(***************************************************************************)
(* C4.  Validation decides the data-model invariants.  As stated: is_valid *)
(* returns True exactly when states is non-empty, start_state is in        *)
(* states, final_states is a subset of states and every (state, symbol)    *)
(* pair has a transition into states.                                      *)
(***************************************************************************)
ValidIffWellFormed ==
    \A i \in 1..Len(verdicts) : verdicts[i][1] <=> WellFormed(input0)

\* every state has a per-state mapping in transitions
HasRows(d) == \A s \in d.states : s \in DOMAIN d.transitions

\* C4, amended: is_valid returns True exactly when, besides, every state
\* has a (possibly empty) mapping in transitions; it returns the pair
\* (True, "DFA is valid.") or a pair (False, reason)
ValidIffWellFormedWithRows ==
    \A i \in 1..Len(verdicts) :
        /\ verdicts[i][1] <=> (WellFormed(input0) /\ HasRows(input0))
        /\ verdicts[i][1] => verdicts[i][2] = "DFA is valid."
        /\ ~verdicts[i][1] => verdicts[i][2] \notin {"", "DFA is valid."}

\* is_valid has rejected an automaton that has the four stated properties
RejectedForMissingRow ==
    /\ verdicts # <<>>
    /\ ~verdicts[1][1]
    /\ WellFormed(input0)

(***************************************************************************)
(* C5.  Validation completeness.  As stated: when some (state, symbol)     *)
(* pair has no transition entry, is_valid fails and the reason names that  *)
(* state and that symbol.                                                  *)
(***************************************************************************)
MissingPairs(d) ==
    {p \in d.states \X d.alphabet :
        IF p[1] \in DOMAIN d.transitions
        THEN p[2] \notin DOMAIN d.transitions[p[1]]
        ELSE TRUE}

NamesPair(reason, s, x) ==
    reason = "Missing transition for state '" \o s \o "' on symbol '" \o x \o "'."

MissingPairNamed ==
    \A i \in 1..Len(verdicts) :
        MissingPairs(input0) # {} =>
            /\ ~verdicts[i][1]
            /\ \E p \in MissingPairs(input0) : NamesPair(verdicts[i][2], p[1], p[2])

\* the entries that exist lead into states
PresentInRange(d) ==
    \A s \in d.states \cap DOMAIN d.transitions :
    \A x \in d.alphabet \cap DOMAIN d.transitions[s] :
        d.transitions[s][x] \in d.states

\* C5, amended: when some pair has no entry is_valid fails; the reason
\* names the state and symbol of such a pair provided start_state is in
\* states, final_states is a subset of states, every state has a mapping in
\* transitions and the entries that exist lead into states
MissingPairNamedWhenOnlyDefect ==
    \A i \in 1..Len(verdicts) :
        MissingPairs(input0) # {} =>
            /\ ~verdicts[i][1]
            /\ (/\ input0.start_state \in input0.states
                /\ input0.final_states \subseteq input0.states
                /\ HasRows(input0)
                /\ PresentInRange(input0))
               => \E p \in MissingPairs(input0) :
                      NamesPair(verdicts[i][2], p[1], p[2])

\* is_valid has named a missing pair of an automaton whose first symbol has
\* its entry
MissingPairReported ==
    /\ verdicts # <<>>
    /\ \E p \in MissingPairs(input0) :
          /\ NamesPair(verdicts[1][2], p[1], p[2])
          /\ \E x \in input0.alphabet : <<p[1], x>> \notin MissingPairs(input0)

(***************************************************************************)
(* C9.  Reproducible first violation: the same automaton always yields the *)
(* same reason.                                                            *)
(***************************************************************************)
ReasonReproducible ==
    \A i, j \in 1..Len(verdicts) : verdicts[i] = verdicts[j]

(***************************************************************************)
(* C6.  Input/output independence: neither the calls nor a later           *)
(* modification of a returned automaton's alphabet or per-state transition *)
(* mappings changes the input automaton.                                   *)
(***************************************************************************)
InputUnchanged == Value(original) = input0

\* the calls themselves leave the input as it was
InputUnchangedByCalls == edits = 0 => InputUnchanged

(***************************************************************************)
(* C7.  Round trip: to_dict emits states, alphabet and final_states as     *)
(* sorted lists, and from_dict(to_dict(a)) has the states, alphabet,       *)
(* start_state, final_states and transitions of a.                         *)
(***************************************************************************)
Ascending(seq) == \A i \in 1..(Len(seq) - 1) : Rank(seq[i]) < Rank(seq[i + 1])

RoundTrip ==
    /\ data.transitions # 0 =>
          /\ Ascending(data.states) /\ Range(data.states) = input0.states
          /\ Ascending(data.alphabet) /\ Range(data.alphabet) = input0.alphabet
          /\ Ascending(data.final_states)
          /\ Range(data.final_states) = input0.final_states
    /\ Exists(restored) => Value(restored) = input0

\* an automaton of several states, not all final, has made the round trip
RoundTripDone ==
    /\ Exists(restored)
    /\ Cardinality(input0.states) >= 2
    /\ input0.final_states # input0.states

(***************************************************************************)
(* C8.  The example: pruning leaves 7 states, D excluded; minimization     *)
(* returns 5 states, A with E, B with H, and C, F, G each alone.           *)
(***************************************************************************)
ExampleResult ==
    input0 = Example =>
        /\ Exists(pruned) =>
              /\ Cardinality(Value(pruned).states) = 7
              /\ "D" \notin Value(pruned).states
        /\ minimized.status # "none" =>
              /\ minimized.status = "returned"
              /\ Cardinality(Minimized.states) = 5
              /\ Len(minimized.partitions) = 5
              /\ SameBlock("A", "E")
              /\ SameBlock("B", "H")
              /\ \A s \in {"C", "F", "G"} : \A t \in Example.states \ {s} :
                     ~SameBlock(s, t)

\* the example has been minimized
ExampleMinimized == input0 = Example /\ minimized.status = "returned"


(***************************************************************************)
(* C11.  Partition invariant of the greedy grouping: once the closure loop *)
(* has ended, "the pair is unmarked in dist_table" is transitive on the    *)
(* reachable states, and the blocks step 5 builds are non-empty, pairwise  *)
(* disjoint and cover the reachable states, so that every reachable state  *)
(* belongs to exactly one block.                                           *)
(***************************************************************************)
\* s and t are states of the table and their pair is not marked in it
Unmarked(s, t) ==
    LET l == minimized.locals IN
    /\ s \in Range(l.states)
    /\ t \in Range(l.states)
    /\ s # t => <<Min(state_map(l.states, s), state_map(l.states, t)),
                  Max(state_map(l.states, s), state_map(l.states, t))>>
                    \notin l.dist_table

PartitionInvariant ==
    minimized.status = "grouped" =>
        LET R == Reachable(input0)
            blocks == minimized.partitions
        IN /\ \A s, t, u \in R : Unmarked(s, t) /\ Unmarked(s, u) => Unmarked(t, u)
           /\ \A k \in 1..Len(blocks) : blocks[k] # {}
           /\ \A k1, k2 \in 1..Len(blocks) : k1 # k2 => blocks[k1] \cap blocks[k2] = {}
           /\ UNION {blocks[k] : k \in 1..Len(blocks)} = R
           /\ \A s \in R : Cardinality({k \in 1..Len(blocks) : s \in blocks[k]}) = 1

\* the same, for the automata in which no identifier is the empty str
PartitionInvariantTruthy ==
    (\A s \in input0.states : Truthy(s)) => PartitionInvariant

\* run pass by pass, minimize() builds the partitions of Partitions
GroupedAsPartitions ==
    minimized.status = "grouped" =>
        minimized.partitions = Partitions(input0, minimized.locals.symOrder)

\* a block of three states has been built
BlockOfThree ==
    /\ minimized.status = "grouped"
    /\ \E k \in 1..Len(minimized.partitions) : Cardinality(minimized.partitions[k]) >= 3
    /\ Len(minimized.partitions) >= 2


(***************************************************************************)
(* C12.  Closure termination: the loop `while changed` ends.  Every pass   *)
(* runs to its end; every pass other than the last marks at least one pair *)
(* (i, j), i < j, that was unmarked; no marked pair is ever unmarked; a    *)
(* pair is marked only through a symbol on which its two states move to    *)
(* two different states whose pair is marked; and the loop runs at most    *)
(* n(n-1)/2 + 1 passes, n being the number of reachable states.            *)
(***************************************************************************)
\* the pair (i, j) has a symbol on which states[i] and states[j] move to
\* two different states of the table whose pair is in dist_table
ForcedBy(l, dist_table, i, j) ==
    \E x \in l.dfa.alphabet :
        LET next1 == l.dfa.transitions[At(l.states, i)][x]
            next2 == l.dfa.transitions[At(l.states, j)][x]
        IN /\ next1 # next2
           /\ next1 \in Range(l.states)
           /\ next2 \in Range(l.states)
           /\ <<Min(state_map(l.states, next1), state_map(l.states, next2)),
                Max(state_map(l.states, next1), state_map(l.states, next2))>>
                  \in dist_table

\* what a step taken inside the loop does
LoopStep ==
    minimized.status = "closure" =>
        LET l == minimized.locals
            after == minimized'.locals
            n == Cardinality(Reachable(input0))
            new == after.dist_table \ l.dist_table
        IN /\ minimized'.status \in {"closure", "grouped"}
           /\ l.dist_table \subseteq after.dist_table
           /\ l.base \subseteq after.dist_table
           /\ \A p \in new : /\ 0 <= p[1] /\ p[1] < p[2] /\ p[2] < Len(l.states)
                             /\ ForcedBy(l, after.dist_table, p[1], p[2])
           /\ (minimized'.status = "closure" /\ after.changed) => new # {}
           /\ minimized'.status = "grouped" => ~l.changed /\ new = {}
           /\ after.passes <= (n * (n - 1)) \div 2 + 1

ClosureTerminates == [][LoopStep]_vars

\* the same, for the automata in which no identifier is the empty str
ClosureTerminatesTruthy ==
    [][(\A s \in input0.states : Truthy(s)) => LoopStep]_vars

\* the loop has ended after three passes
ThreePasses ==
    /\ minimized.status = "grouped"
    /\ minimized.locals.passes = 3

====
